---------------------------- MODULE Spec2Model ----------------------------
(***************************************************************************)
(* Scan orchestration and result normalisation of grepmarx                 *)
(* (src/app/analysis/util.py, src/app/analysis/routes.py).                 *)
(*                                                                         *)
(* Two specifications share this module:                                   *)
(*   Spec      the launch / background job / abort state machine of one    *)
(*             project (scans_launch, async_scan, stop_analysis);          *)
(*   SpecNorm  the result normalisers applied to bounded payloads          *)
(*             (load_scan_results and its helpers).                        *)
(***************************************************************************)
EXTENDS Integers, Sequences, FiniteSets, TLC

(***************************************************************************)
(* Bounds of the model.                                                    *)
(***************************************************************************)
\* number of scans_launch requests that create an Analysis (and a job)
MaxAnalyses == 2
\* number of records in one payload: pattern-engine results (SpecNorm),
\* inspector entries (SpecInspector)
MaxRecords == 3
\* number of import_rules calls on one rules folder (SpecStage)
MaxStagings == 2
\* number of runs of async_scan for one analysis id (SpecArtifact)
MaxRuns == 3
\* number of records in the dependency scanner's result (SpecSca)
MaxDeps == 4
\* number of pieces a record's path is made of (SpecOcc)
MaxSegments == 4
\* largest line number of a record (SpecOcc)
MaxLine == 2
MaxVulns == 4

(***************************************************************************)
(* Program constants (app.constants, imported by util.py and routes.py).   *)
(***************************************************************************)
STATUS_PENDING == "PENDING"
STATUS_ANALYZING == "ANALYZING"
STATUS_FINISHED == "FINISHED"
STATUS_ERROR == "ERROR"
STATUS_ABORTED == "ABORTED"
SEVERITY_HIGH == "high"
SEVERITY_MEDIUM == "medium"
SEVERITY_LOW == "low"

\* Python's None, for a column nothing has been written to
None == "None"
\* what datetime.now() returns: the model keeps whether a timestamp is set
Now == "now"
\* the empty string written to analysis.task_id
EmptyStr == ""
\* truthiness of a task handle: None and "" are both empty
HandleSet(t) == t # None /\ t # EmptyStr

(***************************************************************************)
(* Strings are sequences of characters where the code takes them apart.    *)
(***************************************************************************)
Last(s) == s[Len(s)]

RECURSIVE SplitDot(_)
\* str.split("."): the dot-separated segments, empty ones kept
SplitDot(s) ==
    IF \A i \in 1..Len(s) : s[i] # "."
    THEN <<s>>
    ELSE LET k == CHOOSE i \in 1..Len(s) :
                      s[i] = "." /\ \A m \in 1..(i-1) : s[m] # "."
         IN  <<SubSeq(s, 1, k-1)>> \o SplitDot(SubSeq(s, k+1, Len(s)))

\* util.py:245  title = c_result["check_id"].split(".")[-1]
TitleOf(check_id) == Last(SplitDot(check_id))


(***************************************************************************)
(* Path stripping of load_occurence (util.py:406-407).  A path is a        *)
(* sequence of tokens: "P" the text of PROJECTS_SRC_PATH, "E" the text of  *)
(* EXTRACT_FOLDER_NAME, "/" a slash, "d" a digit, "x" any other character. *)
(* The pattern is  P [/]? d+ [/] E [/]?  and re.sub removes its matches    *)
(* left to right, each match greedy, the scan resuming after a match.      *)
(***************************************************************************)
SkipSlash(s, j) == IF j <= Len(s) /\ s[j] = "/" THEN j + 1 ELSE j

RECURSIVE SkipDigits(_, _)
SkipDigits(s, j) == IF j <= Len(s) /\ s[j] = "d" THEN SkipDigits(s, j + 1) ELSE j

\* the index after the match starting at i, or 0 when none starts there
MatchEnd(s, i) ==
    IF i > Len(s) \/ s[i] # "P"
    THEN 0
    ELSE LET a == SkipSlash(s, i + 1)
             b == SkipDigits(s, a)
         IN  IF b = a
             THEN 0
             ELSE IF b + 1 <= Len(s) /\ s[b] = "/" /\ s[b + 1] = "E"
                  THEN SkipSlash(s, b + 2)
                  ELSE 0

RECURSIVE ReSub(_, _)
\* re.sub(pattern, "", s) from position i on
ReSub(s, i) ==
    IF i > Len(s)
    THEN <<>>
    ELSE LET e == MatchEnd(s, i)
         IN  IF e = 0 THEN <<s[i]>> \o ReSub(s, i + 1) ELSE ReSub(s, e)

\* clean_path = re.sub(pattern, "", semgrep_result["path"])
StripPath(path) == ReSub(path, 1)

(***************************************************************************)
(* Pattern-engine result records.  A JSON member that may be missing, a    *)
(* scalar or a list is a tagged record.                                    *)
(***************************************************************************)
Absent == [kind |-> "absent"]
Scalar(v) == [kind |-> "scalar", v |-> v]
List(v) == [kind |-> "list", v |-> v]

\* what an operation returns (exc = None) or the exception it raises
Ok(v) == [exc |-> None, val |-> v]
Raise(e) == [exc |-> e]
Raised(r) == r.exc # None

\* app.rules.util.generate_severity: the static CWE -> severity table, with
\* the low bucket as the fallback
generate_severity(cwe) ==
    CASE cwe = "CWE-89" -> SEVERITY_HIGH
      [] cwe = "CWE-327" -> SEVERITY_MEDIUM
      [] OTHER -> SEVERITY_LOW

\* " ".join(xs)
RECURSIVE JoinSpace(_)
JoinSpace(xs) ==
    IF Len(xs) = 0 THEN ""
    ELSE IF Len(xs) = 1 THEN xs[1]
    ELSE xs[1] \o " " \o JoinSpace(Tail(xs))

\* variant: the last entry of a list is kept
LastOrScalar(m) ==
    IF m.kind = "list"
    THEN IF Len(m.v) = 0 THEN Raise("IndexError") ELSE Ok(m.v[Len(m.v)])
    ELSE Ok(m.v)

\* metadata["cwe"][0] for a list, metadata["cwe"] for a scalar
FirstOrScalar(m) ==
    IF m.kind = "list"
    THEN IF Len(m.v) = 0 THEN Raise("IndexError") ELSE Ok(m.v[1])
    ELSE Ok(m.v)

\* util.py:363-394
load_vulnerability(title, r) ==
    LET vuln == [title |-> title, description |-> None, cwe |-> None,
                 owasp |-> None, references |-> None, severity |-> None,
                 occurences |-> <<>>]
    IN  IF ~r.has_extra THEN Raise("KeyError")
        ELSE LET v1 == IF r.message.kind # "absent"
                       THEN [vuln EXCEPT !.description = r.message.v]
                       ELSE vuln
             IN  IF ~r.has_metadata THEN Ok(v1)
                 ELSE LET c == IF r.cwe.kind = "absent" THEN Ok(v1.cwe)
                                ELSE FirstOrScalar(r.cwe)
                          o == IF r.owasp.kind = "absent" THEN Ok(v1.owasp)
                                ELSE FirstOrScalar(r.owasp)
                      IN  IF Raised(c) THEN c
                          ELSE IF Raised(o) THEN o
                          ELSE Ok([v1 EXCEPT
                                     !.cwe = c.val,
                                     !.owasp = o.val,
                                     !.references =
                                         IF r.references.kind = "absent"
                                         THEN @ ELSE JoinSpace(r.references.v),
                                     !.severity = generate_severity(c.val)])

\* util.py:397-417
load_occurence(r) ==
    IF ~r.has_extra THEN Raise("KeyError")
    ELSE Ok([file_path |-> StripPath(r.path),
             match_string |-> r.lines,
             position |-> [line_start |-> r.start_line,
                           line_end |-> r.end_line]])

(***************************************************************************)
(* load_scan_results (util.py:230-257).  The pattern engine's output is    *)
(* the empty string, or JSON text: null, an object without "results", an   *)
(* object with "results", or text json.loads rejects.                      *)
(*                                                                         *)
(* vulns is the function's local list.  analysis.vulnerabilities is        *)
(* assigned on line 257, inside the else branch of the loop: the ORM       *)
(* copies the list's elements at that moment, and shares the Vulnerability *)
(* objects, so that occurrences appended later are seen and               *)
(* vulnerabilities appended later are not.  attached is the length of      *)
(* vulns at the last assignment.                                           *)
(***************************************************************************)
EmptyOutput == [kind |-> "empty"]
NullOutput == [kind |-> "null"]
ObjectOutput(has_results, results) ==
    [kind |-> "object", has_results |-> has_results, results |-> results]

\* util.py:247  e_vulns = [v for v in vulns if v.title == title]
ExistingWithTitle(vulns, title) == {k \in 1..Len(vulns) : vulns[k].title = title}

Min(S) == CHOOSE x \in S : \A y \in S : x <= y

\* util.py:251, 256  <vulnerability>.occurences.append(load_occurence(c_result))
AppendOccurence(occurences, occ) == Append(occurences, occ)

\* one iteration of the loop, util.py:245-257
ScanIteration(acc, r) ==
    LET title == TitleOf(r.check_id)
        e_vulns == ExistingWithTitle(acc.vulns, title)
        occ == load_occurence(r)
    IN  IF e_vulns = {}
        THEN LET n_vuln == load_vulnerability(title, r)
             IN  IF Raised(n_vuln) THEN n_vuln
                 ELSE IF Raised(occ) THEN occ
                 ELSE Ok([acc EXCEPT !.vulns = Append(@,
                            [n_vuln.val EXCEPT !.occurences =
                                AppendOccurence(@, occ.val)])])
        ELSE IF Raised(occ) THEN occ
             ELSE LET k == Min(e_vulns)
                      vs == [acc.vulns EXCEPT ![k].occurences =
                                AppendOccurence(@, occ.val)]
                  IN  Ok([vulns |-> vs, assigned |-> TRUE, attached |-> Len(vs)])

RECURSIVE ScanLoop(_, _, _)
\* util.py:244  for c_result in results
ScanLoop(results, i, acc) ==
    IF i > Len(results)
    THEN Ok(acc)
    ELSE LET step == ScanIteration(acc, results[i])
         IN  IF Raised(step) THEN step ELSE ScanLoop(results, i + 1, step.val)

\* load_scan_results(analysis, semgrep_output): vulns is the local list at
\* the end, vulnerabilities the value of analysis.vulnerabilities at the end
\* (old is its value before the call)
load_scan_results(old, semgrep_output) ==
    LET untouched == Ok([vulns |-> <<>>, vulnerabilities |-> old])
    IN  CASE semgrep_output.kind = "empty" -> untouched
          [] semgrep_output.kind = "invalid" -> Raise("JSONDecodeError")
          [] semgrep_output.kind = "null" -> untouched
          [] semgrep_output.kind = "object" ->
               IF ~semgrep_output.has_results THEN untouched
               ELSE LET run == ScanLoop(semgrep_output.results, 1,
                                  [vulns |-> <<>>, assigned |-> FALSE,
                                   attached |-> 0])
                    IN  IF Raised(run) THEN run
                        ELSE Ok([vulns |-> run.val.vulns,
                                 vulnerabilities |->
                                    IF run.val.assigned
                                    THEN SubSeq(run.val.vulns, 1, run.val.attached)
                                    ELSE old])

(***************************************************************************)
(* load_sca_scan_results (util.py:260-284).  A dependency-scan record is   *)
(* [id, package, severity, related_urls, missing]: missing is the set of   *)
(* keys the decoded JSON object lacks (c_result[key] raises KeyError for   *)
(* each); the members not listed are copied like package and severity.     *)
(* The collection is assigned on line 284, inside the loop, after each     *)
(* append.                                                                 *)
(***************************************************************************)
ScaKeys == {"id", "package", "purl", "package_type", "package_usage",
            "version", "fix_version", "severity", "cvss_score",
            "short_description", "related_urls"}

\* ",".join(xs)
RECURSIVE JoinComma(_)
JoinComma(xs) ==
    IF Len(xs) = 0 THEN ""
    ELSE IF Len(xs) = 1 THEN xs[1]
    ELSE xs[1] \o "," \o JoinComma(Tail(xs))

\* util.py:270-282
NewVulnerableDependency(r) ==
    IF r.missing \cap ScaKeys # {}
    THEN Raise("KeyError")
    ELSE Ok([common_id |-> r.id, package |-> r.package,
             severity |-> r.severity,
             related_urls |-> JoinComma(r.related_urls)])

\* a variant of lines 269-283 that skips a record equal to one already kept
KeepDistinct(vuln_deps, dep) ==
    IF \E k \in 1..Len(vuln_deps) : vuln_deps[k] = dep
    THEN vuln_deps ELSE Append(vuln_deps, dep)

\* util.py:269-283  vuln_deps.append(VulnerableDependency(...))
KeepAll(vuln_deps, dep) == Append(vuln_deps, dep)

RECURSIVE ScaLoop(_, _, _)
\* util.py:268-284
ScaLoop(sca_results, i, acc) ==
    IF i > Len(sca_results)
    THEN Ok(acc)
    ELSE LET dep == NewVulnerableDependency(sca_results[i])
         IN  IF Raised(dep) THEN dep
             ELSE LET vuln_deps == KeepAll(acc.vuln_deps, dep.val)
                  IN  ScaLoop(sca_results, i + 1,
                              [vuln_deps |-> vuln_deps,
                               vulnerable_dependencies |-> vuln_deps])

\* a variant that takes an empty record list for an error
load_sca_scan_results_strict(old, sca_results) ==
    IF Len(sca_results) = 0 THEN Raise("ValueError")
    ELSE LET run == ScaLoop(sca_results, 1,
                            [vuln_deps |-> <<>>, vulnerable_dependencies |-> old])
         IN  IF Raised(run) THEN run ELSE Ok(run.val.vulnerable_dependencies)

\* the value of analysis.vulnerable_dependencies after the call
load_sca_scan_results(old, sca_results) ==
    LET run == ScaLoop(sca_results, 1,
                       [vuln_deps |-> <<>>, vulnerable_dependencies |-> old])
    IN  IF Raised(run) THEN run ELSE Ok(run.val.vulnerable_dependencies)

(***************************************************************************)
(* load_scan_app_inspector (util.py:287-360).  The inspector's payload is  *)
(* "" or a decoded object; an entry of detailedMatchList is               *)
(* [ruleName, fileName, excerpt, severity, has_location].                  *)
(***************************************************************************)
EmptyPayload == [kind |-> "empty"]
InspectorPayload(has_metaData, has_list, detailed) ==
    [kind |-> "object", has_metaData |-> has_metaData,
     has_list |-> has_list, detailed |-> detailed]

\* util.py:316-338
load_match(title, d) ==
    [title |-> title, filename |-> d.fileName, tag |-> <<>>]

\* util.py:341-360
load_tags(d) ==
    IF ~d.has_location THEN Raise("KeyError")
    ELSE Ok([excerpt |-> d.excerpt, filename |-> d.fileName,
             severity |-> IF d.severity.kind = "absent" THEN None
                          ELSE d.severity.v])

\* util.py:303-313
MatchIteration(acc, d) ==
    LET title == d.ruleName
        e_match == {k \in 1..Len(acc.match) : acc.match[k].title = title}
        tags == load_tags(d)
    IN  IF Raised(tags) THEN tags
        ELSE IF e_match = {}
        THEN Ok([acc EXCEPT !.match = Append(@,
                   [load_match(title, d) EXCEPT !.tag = Append(@, tags.val)])])
        ELSE LET k == Min(e_match)
                 ms == [acc.match EXCEPT ![k].tag = Append(@, tags.val)]
             IN  Ok([match |-> ms, assigned |-> TRUE, attached |-> Len(ms)])

RECURSIVE MatchLoop(_, _, _)
\* util.py:302
MatchLoop(detailed, i, acc) ==
    IF i > Len(detailed)
    THEN Ok(acc)
    ELSE LET step == MatchIteration(acc, detailed[i])
         IN  IF Raised(step) THEN step ELSE MatchLoop(detailed, i + 1, step.val)

\* the value of app_inspector.match after the call
load_scan_app_inspector(old, app_inspector_result) ==
    IF app_inspector_result.kind = "empty"
       \/ ~app_inspector_result.has_metaData
       \/ ~app_inspector_result.has_list
    THEN Ok(old)
    ELSE LET run == MatchLoop(app_inspector_result.detailed, 1,
                              [match |-> <<>>, assigned |-> FALSE,
                               attached |-> 0])
         IN  IF Raised(run) THEN run
             ELSE Ok(IF run.val.assigned
                     THEN SubSeq(run.val.match, 1, run.val.attached)
                     ELSE old)

(***************************************************************************)
(* The orchestrator's state: one project, the Analysis / AppInspector rows *)
(* its launches create (the id is the index), the files the pipeline       *)
(* writes, the background jobs and the revocations in flight.              *)
(***************************************************************************)
VARIABLES
    status,            \* Project.status (committed)
    error_message,     \* Project.error_message (committed)
    occurences_count,  \* Project.occurences_count (committed)
    risk_level,        \* Project.risk_level (committed)
    project_analysis,  \* id of Project.analysis, 0 for none (committed)
    analysis,          \* Analysis rows (committed), indexed by id
    app_inspector,     \* AppInspector rows (committed), indexed by id
    rules_dir,         \* names of the files in <project>/rules
    artifact,          \* artifact[id]: documents appended to analysis_<id>.json
    job,               \* job[id]: the async_scan task of analysis id
    revoked,           \* task ids whose termination is on its way to a worker
    flashed,           \* the message scans_launch flashed last
    n_input,           \* SpecNorm: the payload to normalise
    n_result           \* SpecNorm: what load_scan_results made of it

orchVars == <<status, error_message, occurences_count, risk_level,
              project_analysis, analysis, app_inspector, rules_dir, artifact,
              job, revoked, flashed>>
normVars == <<n_input, n_result>>
vars == <<orchVars, normVars>>

StatusSet == {STATUS_PENDING, STATUS_ANALYZING, STATUS_FINISHED,
              STATUS_ERROR, STATUS_ABORTED}

\* self.request.id of the task of analysis id
TaskId(id) == "task-" \o ToString(id)

(***************************************************************************)
(* Rule packs (read-only configuration) and import_rules (util.py:457-484).*)
(***************************************************************************)
RulePackIds == {"pack"}

\* c_rule_pack.rules, in iteration order: the pack "pack" holds both rules,
\* the packs "sql" and "crypto" one each
RulesOf(pack) ==
    LET sqli == [file_path |-> "sqli.yml", repository |-> "repo",
                 category |-> "python", title |-> "sqli"]
        md5 == [file_path |-> "md5.yml", repository |-> "repo",
                category |-> "java", title |-> "md5"]
    IN  CASE pack = "sql" -> <<sqli>>
          [] pack = "crypto" -> <<md5>>
          [] OTHER -> <<sqli, md5>>

RECURSIVE RulesOfPacks(_)
\* the rules of the selected packs, packs in id order
RulesOfPacks(packs) ==
    IF packs = {} THEN <<>>
    ELSE LET p == CHOOSE x \in packs : TRUE
         IN  RulesOf(p) \o RulesOfPacks(packs \ {p})

\* util.py:470-478  the staged file's name
StagedName(rule) ==
    rule.repository \o "_" \o rule.category \o "." \o rule.title \o ".yml"

RECURSIVE CopyRules(_, _, _)
\* util.py:467-479  copyfile fails on the first missing source file
CopyRules(rules, sources, dir) ==
    IF Len(rules) = 0 THEN [exc |-> None, dir |-> dir]
    ELSE IF rules[1].file_path \notin sources
         THEN [exc |-> "FileNotFoundError", dir |-> dir]
         ELSE CopyRules(Tail(rules), sources, dir \cup {StagedName(rules[1])})

\* a variant of lines 464-466 that keeps what the folder holds
FolderKept(rule_folder) == rule_folder

\* util.py:464-466  the folder is removed with all it holds, and made anew
FolderWiped(rule_folder) == {}

\* import_rules(analysis, rule_folder): the folder is wiped, then filled
import_rules(rule_folder, packs, sources) ==
    CopyRules(RulesOfPacks(packs), sources, FolderWiped(rule_folder))

\* the rule source files under RULES_PATH
AllRuleSources == {"sqli.yml", "md5.yml"}
RuleSourceStates == {AllRuleSources, AllRuleSources \ {"md5.yml"}}

(***************************************************************************)
(* Project properties recomputed at the end of a job.                      *)
(***************************************************************************)
RECURSIVE SumOccurences(_)
SumOccurences(vulnerabilities) ==
    IF Len(vulnerabilities) = 0 THEN 0
    ELSE Len(vulnerabilities[1].occurences) + SumOccurences(Tail(vulnerabilities))

\* app.projects.util.count_occurences
count_occurences(vulnerabilities) == SumOccurences(vulnerabilities)

\* app.projects.util.calculate_risk_level: from the highest severity present
calculate_risk_level(vulnerabilities) ==
    LET sev == {vulnerabilities[k].severity : k \in 1..Len(vulnerabilities)}
    IN  IF SEVERITY_HIGH \in sev THEN 3
        ELSE IF SEVERITY_MEDIUM \in sev THEN 2
        ELSE IF sev # {} THEN 1
        ELSE 0

(***************************************************************************)
(* The scanner adapters and what the external tools can hand them.         *)
(***************************************************************************)
Rec(check_id, line, cwe) ==
    [check_id |-> check_id, path |-> <<"P", "d", "/", "E", "/", "x">>,
     start_line |-> line, end_line |-> line, lines |-> "code",
     has_extra |-> TRUE, message |-> Scalar("msg"), has_metadata |-> TRUE,
     cwe |-> cwe, owasp |-> Absent, references |-> Absent]

Dep(id, missing) ==
    [id |-> id, package |-> "pkg", severity |-> "HIGH",
     related_urls |-> <<"u1", "u2">>, missing |-> missing]

Entry(ruleName, excerpt) ==
    [ruleName |-> ruleName, fileName |-> "f.py", excerpt |-> excerpt,
     severity |-> Absent, has_location |-> TRUE]

\* the dependency scanner's result file after cdxgen and depscan ran:
\* missing, empty, one complete record, one record without "package_usage"
DepscanFiles ==
    {[exists |-> FALSE, lines |-> <<>>],
     [exists |-> TRUE, lines |-> <<>>],
     [exists |-> TRUE, lines |-> <<Dep(1, {})>>],
     [exists |-> TRUE, lines |-> <<Dep(2, {"package_usage"})>>]}

\* util.py:145-150  open(result_file) fails when the file is missing
sca_scan(result_file) ==
    IF ~result_file.exists THEN Raise("FileNotFoundError")
    ELSE Ok(result_file.lines)

\* the pattern engine: a SemgrepError, or its JSON output
EngineRuns ==
    {[error |-> TRUE, output |-> EmptyOutput],
     [error |-> FALSE, output |->
        ObjectOutput(TRUE, <<Rec(<<"r", ".", "a">>, 1, List(<<"CWE-89", "CWE-79">>)),
                             Rec(<<"r", ".", "a">>, 2, List(<<"CWE-89", "CWE-79">>))>>)]
}

\* util.py:177-210  a SemgrepError is re-raised as Exception("SemgrepError", msg)
semgrep_scan(run) ==
    IF run.error THEN Raise("Exception") ELSE Ok(run.output)

\* the inspector: a failure, or its decoded payload
InspectorRuns ==
    {[error |-> TRUE, payload |-> EmptyPayload],
     [error |-> FALSE, payload |->
        InspectorPayload(TRUE, TRUE, <<Entry("crypto", "e1"), Entry("crypto", "e2")>>)]}

\* app.projects.util.application_inspector_scan
application_inspector_scan(run) ==
    IF run.error THEN Raise("InspectorError") ELSE Ok(run.payload)

\* repr(e) of a caught exception
Repr(e) == e \o "()"

(***************************************************************************)
(* Initial state: a project nothing has been launched for.                 *)
(***************************************************************************)
\* a job's session: what it has written and not yet committed
NewSession ==
    [status |-> Absent, error_message |-> Absent, vulnerabilities |-> <<>>,
     vulnerable_dependencies |-> <<>>, match |-> <<>>]

\* a task: where it is in async_scan, its local variables (e is caught),
\* its session
NewJob ==
    [pc |-> "queued", sca_result |-> <<>>, semgrep_result |-> EmptyOutput,
     app_inspector_result |-> EmptyPayload, caught |-> None,
     session |-> NewSession]

\* a job that has ended
EndedJob(pc) == [NewJob EXCEPT !.pc = pc]

NormIdle == n_input = EmptyOutput /\ n_result = <<>>

\* Project.status before the first launch: the state machine's first state
InitialStatus == STATUS_PENDING

OrchInit ==
    /\ status = InitialStatus
    /\ error_message = None
    /\ occurences_count = 0
    /\ risk_level = 0
    /\ project_analysis = 0
    /\ analysis = <<>>
    /\ app_inspector = <<>>
    /\ rules_dir = {}
    /\ artifact = <<>>
    /\ job = <<>>
    /\ revoked = {}
    /\ flashed = None

Init == OrchInit /\ NormIdle

(***************************************************************************)
(* scans_launch (routes.py:171-217).                                       *)
(***************************************************************************)
\* the submitted form: whether it validates, and the rule packs selected
ScanForms == [valid : BOOLEAN, rule_packs : SUBSET RulePackIds]

\* routes.py:189-193  the row a launch creates
NewAnalysis(form) ==
    [rule_packs |-> form.rule_packs, task_id |-> None, started_on |-> None,
     finished_on |-> None, vulnerabilities |-> <<>>,
     vulnerable_dependencies |-> <<>>]

NewAppInspector == [match |-> <<>>]

\* routes.py:182, 209, 216  the messages scans_launch flashes
MsgNoRulePack == "At least one rule pack should be selected"
MsgLaunched == "Analysis successfully launched"
MsgFormErrors == "str(scan_form.errors)"

\* routes.py:179  scan_form.validate_on_submit()
FormValid(form) == form.valid

\* a variant of the test of line 181 that no selection satisfies
NoRulePackNever(form) == Cardinality(form.rule_packs) < 0

\* routes.py:181  len(scan_form.rule_packs.data) <= 0
NoRulePack(form) == Cardinality(form.rule_packs) <= 0

\* routes.py:179-183, 212-217  the request is rejected: nothing is written
LaunchRejected(form) ==
    /\ ~FormValid(form) \/ NoRulePack(form)
    /\ flashed' = IF FormValid(form) THEN MsgNoRulePack ELSE MsgFormErrors
    /\ UNCHANGED <<status, error_message, occurences_count, risk_level,
                   project_analysis, analysis, app_inspector, rules_dir,
                   artifact, job, revoked, normVars>>

\* routes.py:199  import_rules raises: the request ends with the error, the
\* session is never committed, the rules folder keeps what was staged
LaunchStagingFails(form) ==
    \E sources \in RuleSourceStates :
    /\ FormValid(form) /\ ~NoRulePack(form)
    /\ Len(analysis) < MaxAnalyses
    /\ import_rules(rules_dir, form.rule_packs, sources).exc # None
    /\ rules_dir' = import_rules(rules_dir, form.rule_packs, sources).dir
    /\ UNCHANGED <<status, error_message, occurences_count, risk_level,
                   project_analysis, analysis, app_inspector, artifact, job,
                   revoked, flashed, normVars>>

\* a variant of the accepted launch without line 201
LaunchAcceptedNoPending(form) ==
    \E sources \in RuleSourceStates :
    /\ FormValid(form) /\ ~NoRulePack(form)
    /\ Len(analysis) < MaxAnalyses
    /\ import_rules(rules_dir, form.rule_packs, sources).exc = None
    /\ rules_dir' = import_rules(rules_dir, form.rule_packs, sources).dir
    /\ analysis' = Append(analysis, NewAnalysis(form))
    /\ app_inspector' = Append(app_inspector, NewAppInspector)
    /\ artifact' = Append(artifact, <<>>)
    /\ project_analysis' = Len(analysis) + 1
    /\ job' = Append(job, NewJob)
    /\ flashed' = MsgLaunched
    /\ UNCHANGED <<status, error_message, occurences_count, risk_level,
                   revoked, normVars>>

\* routes.py:184-210  the Analysis and AppInspector are created, the rules
\* staged, PENDING committed and the job enqueued
LaunchAccepted(form) ==
    \E sources \in RuleSourceStates :
    /\ FormValid(form) /\ ~NoRulePack(form)
    /\ Len(analysis) < MaxAnalyses
    /\ import_rules(rules_dir, form.rule_packs, sources).exc = None
    /\ rules_dir' = import_rules(rules_dir, form.rule_packs, sources).dir
    /\ analysis' = Append(analysis, NewAnalysis(form))
    /\ app_inspector' = Append(app_inspector, NewAppInspector)
    /\ artifact' = Append(artifact, <<>>)
    /\ project_analysis' = Len(analysis) + 1
    /\ status' = STATUS_PENDING
    /\ job' = Append(job, NewJob)
    /\ flashed' = MsgLaunched
    /\ UNCHANGED <<error_message, occurences_count, risk_level, revoked, normVars>>

scans_launch(form) ==
    \/ LaunchRejected(form)
    \/ LaunchStagingFails(form)
    \/ LaunchAccepted(form)

(***************************************************************************)
(* async_scan (util.py:61-105), one action per step between two points     *)
(* where another process can act.                                          *)
(***************************************************************************)
JobIds == 1..Len(job)

Running(j) ==
    job[j].pc \in {"started", "sca", "semgrep", "scanned", "finishing"}

\* a variant of the first commit without line 73
JobStartKeepsStatus(j) ==
    /\ job[j].pc = "queued"
    /\ analysis' = [analysis EXCEPT ![j].started_on = Now,
                                    ![j].task_id = TaskId(j)]
    /\ job' = [job EXCEPT ![j].pc = "started"]
    /\ UNCHANGED <<status, error_message, occurences_count, risk_level,
                   project_analysis, app_inspector, rules_dir, artifact, revoked,
                   flashed, normVars>>

\* util.py:68-75  the first commit
JobStart(j) ==
    /\ job[j].pc = "queued"
    /\ analysis' = [analysis EXCEPT ![j].started_on = Now,
                                    ![j].task_id = TaskId(j)]
    /\ status' = STATUS_ANALYZING
    /\ job' = [job EXCEPT ![j].pc = "started"]
    /\ UNCHANGED <<error_message, occurences_count, risk_level,
                   project_analysis, app_inspector, rules_dir, artifact, revoked,
                   flashed, normVars>>

\* a variant of the except branch that drops the exception's text
ExceptBranchNoMessage(session, e) ==
    [session EXCEPT !.error_message = Scalar(EmptyStr),
                    !.status = Scalar(STATUS_ERROR)]

\* util.py:85-90  the except branch
ExceptBranch(session, e) ==
    [session EXCEPT !.error_message = Scalar(Repr(e)),
                    !.status = Scalar(STATUS_ERROR)]

\* a scanner call of the try block: its result is kept, or the except
\* branch runs (the results kept so far are dead from then on and dropped)
ScannerStep(j, from, to, field, result) ==
    /\ job[j].pc = from
    /\ job' = IF Raised(result)
              THEN [job EXCEPT ![j] = [NewJob EXCEPT
                                !.pc = "finishing",
                                !.caught = result.exc,
                                !.session = ExceptBranch(job[j].session, result.exc)]]
              ELSE [job EXCEPT ![j].pc = to, ![j][field] = result.val]
    /\ UNCHANGED <<status, error_message, occurences_count, risk_level,
                   project_analysis, analysis, app_inspector, rules_dir,
                   artifact, revoked, flashed, normVars>>

\* util.py:76-80  generate_semgrep_options, which reads and writes nothing
\* another process sees, then the dependency scan
JobScaScan(j) ==
    \E f \in DepscanFiles :
        ScannerStep(j, "started", "sca", "sca_result", sca_scan(f))

\* util.py:82
JobSemgrepScan(j) ==
    \E run \in EngineRuns :
        ScannerStep(j, "sca", "semgrep", "semgrep_result", semgrep_scan(run))

\* util.py:84
JobInspectorScan(j) ==
    \E run \in InspectorRuns :
        ScannerStep(j, "semgrep", "scanned", "app_inspector_result",
                    application_inspector_scan(run))


\* a variant of the else branch that also empties error_message
ElseBranchClearingMessage(j) ==
    LET me == job[j]
        v == load_scan_results(me.session.vulnerabilities, me.semgrep_result)
        d == load_sca_scan_results(me.session.vulnerable_dependencies, me.sca_result)
        m == load_scan_app_inspector(me.session.match, me.app_inspector_result)
    IN  IF Raised(v) THEN v
        ELSE IF Raised(d) THEN d
        ELSE IF Raised(m) THEN m
        ELSE Ok([me.session EXCEPT
                   !.vulnerabilities = v.val.vulnerabilities,
                   !.vulnerable_dependencies = d.val,
                   !.match = m.val,
                   !.error_message = Scalar(EmptyStr),
                   !.status = Scalar(STATUS_FINISHED)])

\* util.py:91-98  the else branch: the three normalisers, then save_result.
\* An exception of a normaliser is not caught: it ends the job.
ElseBranch(j) ==
    LET me == job[j]
        v == load_scan_results(me.session.vulnerabilities, me.semgrep_result)
        d == load_sca_scan_results(me.session.vulnerable_dependencies, me.sca_result)
        m == load_scan_app_inspector(me.session.match, me.app_inspector_result)
    IN  IF Raised(v) THEN v
        ELSE IF Raised(d) THEN d
        ELSE IF Raised(m) THEN m
        ELSE Ok([me.session EXCEPT
                   !.vulnerabilities = v.val.vulnerabilities,
                   !.vulnerable_dependencies = d.val,
                   !.match = m.val,
                   !.status = Scalar(STATUS_FINISHED)])

\* a variant of save_result that opens the file with mode "w"
save_result_truncating(file, semgrep_result) == <<semgrep_result>>

\* util.py:213-227  open(filename, "a"); f.write(semgrep_result)
save_result(file, semgrep_result) == Append(file, semgrep_result)

\* a variant of the else branch that commits the vulnerabilities as soon as
\* they are loaded
JobLoadResultsCommitting(j) ==
    /\ job[j].pc = "scanned"
    /\ IF Raised(ElseBranch(j))
       THEN /\ job' = [job EXCEPT ![j] = EndedJob("raised")]
            /\ UNCHANGED <<artifact, analysis>>
       ELSE /\ job' = [job EXCEPT ![j].pc = "finishing",
                                  ![j].session = ElseBranch(j).val]
            /\ artifact' = [artifact EXCEPT
                              ![j] = save_result(@, job[j].semgrep_result)]
            /\ analysis' = [analysis EXCEPT ![j].vulnerabilities =
                                ElseBranch(j).val.vulnerabilities]
    /\ UNCHANGED <<status, error_message, occurences_count, risk_level,
                   project_analysis, app_inspector, rules_dir,
                   revoked, flashed, normVars>>

\* util.py:91-98  the else branch, up to the write of FINISHED
JobLoadResults(j) ==
    /\ job[j].pc = "scanned"
    /\ IF Raised(ElseBranch(j))
       THEN /\ job' = [job EXCEPT ![j] = EndedJob("raised")]
            /\ UNCHANGED artifact
       ELSE /\ job' = [job EXCEPT ![j].pc = "finishing",
                                  ![j].session = ElseBranch(j).val]
            /\ artifact' = [artifact EXCEPT
                              ![j] = save_result(@, job[j].semgrep_result)]
    /\ UNCHANGED <<status, error_message, occurences_count, risk_level,
                   project_analysis, analysis, app_inspector, rules_dir,
                   revoked, flashed, normVars>>

\* analysis.project.analysis.vulnerabilities as the job's session sees it
ProjectVulnerabilities(j) ==
    IF project_analysis = j THEN job[j].session.vulnerabilities
    ELSE analysis[project_analysis].vulnerabilities

\* a variant of lines 100-101 without line 101
MarkDoneKeepsHandle(a) == [a EXCEPT !.finished_on = Now]

\* util.py:100-101  analysis.finished_on = datetime.now(); analysis.task_id = ""
MarkDone(a) == [a EXCEPT !.finished_on = Now, !.task_id = EmptyStr]

\* util.py:99-105  the final commit
JobFinish(j) ==
    /\ job[j].pc = "finishing"
    /\ analysis' = [analysis EXCEPT
                      ![j] = [MarkDone(@) EXCEPT
                                !.vulnerabilities = job[j].session.vulnerabilities,
                                !.vulnerable_dependencies =
                                    job[j].session.vulnerable_dependencies]]
    /\ app_inspector' = [app_inspector EXCEPT ![j].match = job[j].session.match]
    /\ status' = job[j].session.status.v
    /\ error_message' = IF job[j].session.error_message.kind = "absent"
                        THEN error_message
                        ELSE job[j].session.error_message.v
    /\ occurences_count' = count_occurences(ProjectVulnerabilities(j))
    /\ risk_level' = calculate_risk_level(ProjectVulnerabilities(j))
    /\ job' = [job EXCEPT ![j] = EndedJob("done")]
    /\ UNCHANGED <<project_analysis, rules_dir, artifact, revoked, flashed,
                   normVars>>

(***************************************************************************)
(* stop_analysis (util.py:108-113) and the delivery of its revocation.     *)
(***************************************************************************)
\* the caller's precondition: the project's current analysis, while the
\* project is ANALYZING
AbortRequested(a) == a = project_analysis /\ a # 0 /\ status = STATUS_ANALYZING

\* a variant of stop_analysis without line 112
stop_analysis_keeps_handle(a) ==
    /\ AbortRequested(a)
    /\ revoked' = IF HandleSet(analysis[a].task_id)
                  THEN revoked \cup {analysis[a].task_id}
                  ELSE revoked
    /\ status' = STATUS_ABORTED
    /\ UNCHANGED <<error_message, occurences_count, risk_level,
                   project_analysis, analysis, app_inspector, rules_dir,
                   artifact, job, flashed, normVars>>

\* a variant of stop_analysis that also rolls the analysis' findings back
stop_analysis_rolling_back(a) ==
    /\ AbortRequested(a)
    /\ revoked' = IF HandleSet(analysis[a].task_id)
                  THEN revoked \cup {analysis[a].task_id}
                  ELSE revoked
    /\ status' = STATUS_ABORTED
    /\ analysis' = [analysis EXCEPT ![a].task_id = EmptyStr,
                                    ![a].vulnerabilities = <<>>]
    /\ UNCHANGED <<error_message, occurences_count, risk_level,
                   project_analysis, app_inspector, rules_dir, artifact, job,
                   flashed, normVars>>

\* a variant of stop_analysis without line 111
stop_analysis_keeps_status(a) ==
    /\ AbortRequested(a)
    /\ revoked' = IF HandleSet(analysis[a].task_id)
                  THEN revoked \cup {analysis[a].task_id}
                  ELSE revoked
    /\ analysis' = [analysis EXCEPT ![a].task_id = EmptyStr]
    /\ UNCHANGED <<status, error_message, occurences_count, risk_level,
                   project_analysis, app_inspector, rules_dir, artifact, job,
                   flashed, normVars>>

\* util.py:108-113
stop_analysis(a) ==
    /\ AbortRequested(a)
    /\ revoked' = IF HandleSet(analysis[a].task_id)
                  THEN revoked \cup {analysis[a].task_id}
                  ELSE revoked
    /\ status' = STATUS_ABORTED
    /\ analysis' = [analysis EXCEPT ![a].task_id = EmptyStr]
    /\ UNCHANGED <<error_message, occurences_count, risk_level,
                   project_analysis, app_inspector, rules_dir, artifact, job,
                   flashed, normVars>>

\* celery.control.revoke(task_id, terminate=True, signal="SIGKILL") is a
\* broadcast: the worker kills the task's process when it receives it
DeliverKill(j) ==
    /\ TaskId(j) \in revoked
    /\ Running(j)
    /\ job' = [job EXCEPT ![j] = EndedJob("killed")]
    /\ revoked' = revoked \ {TaskId(j)}
    /\ UNCHANGED <<status, error_message, occurences_count, risk_level,
                   project_analysis, analysis, app_inspector, rules_dir,
                   artifact, flashed, normVars>>

Next ==
    \/ \E form \in ScanForms : LaunchRejected(form)
    \/ \E form \in ScanForms : LaunchStagingFails(form)
    \/ \E form \in ScanForms : LaunchAccepted(form)
    \/ \E j \in JobIds : JobStart(j)
    \/ \E j \in JobIds : JobScaScan(j)
    \/ \E j \in JobIds : JobSemgrepScan(j)
    \/ \E j \in JobIds : JobInspectorScan(j)
    \/ \E j \in JobIds : JobLoadResults(j)
    \/ \E j \in JobIds : JobFinish(j)
    \/ \E a \in JobIds : stop_analysis(a)
    \/ \E j \in JobIds : DeliverKill(j)

Spec == Init /\ [][Next]_vars

(***************************************************************************)
(* SpecNorm: load_scan_results applied to every payload of at most         *)
(* MaxRecords records, on a fresh Analysis.                                *)
(***************************************************************************)
\* records with three check ids, two of them with the same last segment
NormRecords ==
    {Rec(<<"r", ".", "a">>, 1, List(<<"CWE-89", "CWE-79">>)),
     Rec(<<"r", ".", "a">>, 2, List(<<"CWE-89", "CWE-79">>)),
     Rec(<<"s", ".", "a">>, 3, Scalar("CWE-327")),
     Rec(<<"b">>, 1, Absent)}

SeqsUpTo(S, n) == UNION {[1..k -> S] : k \in 0..n}

NormInputs ==
    {EmptyOutput, NullOutput, ObjectOutput(FALSE, <<>>)}
        \cup {ObjectOutput(TRUE, rs) : rs \in SeqsUpTo(NormRecords, MaxRecords)}

NormInit == OrchInit /\ n_input \in NormInputs /\ n_result = <<>>

\* load_scan_results(analysis, semgrep_output) on a fresh Analysis
NormLoadScanResults ==
    /\ n_result = <<>>
    /\ n_result' = <<load_scan_results(<<>>, n_input)>>
    /\ UNCHANGED <<orchVars, n_input>>

NormNext == NormLoadScanResults

SpecNorm == NormInit /\ [][NormNext]_vars

(***************************************************************************)
(* Claims about load_scan_results, checked under SpecNorm.                 *)
(***************************************************************************)
\* the result records of the payload
NormResults ==
    IF n_input.kind = "object" /\ n_input.has_results THEN n_input.results
    ELSE <<>>

\* the titles of the payload's records
TitlesOf(results) == {TitleOf(results[i].check_id) : i \in 1..Len(results)}

\* load_scan_results has run and returned
NormReturned == n_result # <<>> /\ ~Raised(n_result[1])

\* analysis.vulnerabilities after the call
NormVulnerabilities == n_result[1].val.vulnerabilities

\* the occurrences of the records titled t, in the records' order
ExpectedOccurences(t, results) ==
    LET sel == SelectSeq(results, LAMBDA r : TitleOf(r.check_id) = t)
    IN  [i \in 1..Len(sel) |-> load_occurence(sel[i]).val]

\* C2: after load_scan_results on a fresh Analysis, a payload of N records
\* with M distinct titles leaves exactly M Vulnerability objects in
\* analysis.vulnerabilities, with pairwise distinct titles.
C2_OneVulnerabilityPerTitle ==
    NormReturned =>
        /\ Len(NormVulnerabilities) = Cardinality(TitlesOf(NormResults))
        /\ \A a, b \in 1..Len(NormVulnerabilities) :
              a # b => NormVulnerabilities[a].title # NormVulnerabilities[b].title

\* C7: for every title t of the payload, analysis.vulnerabilities holds the
\* Vulnerability titled t, and its occurrences are those of the records
\* titled t, as many and in the records' order.
C7_OccurencesPerTitle ==
    NormReturned =>
        \A t \in TitlesOf(NormResults) :
            \E k \in 1..Len(NormVulnerabilities) :
                /\ NormVulnerabilities[k].title = t
                /\ NormVulnerabilities[k].occurences =
                       ExpectedOccurences(t, NormResults)

(***************************************************************************)
(* Claims about the launch / job / abort state machine, checked under Spec.*)
(***************************************************************************)
\* job j takes its first commit in this step
Starts(j) == job[j].pc = "queued" /\ job'[j].pc = "started"

\* job j takes its final commit in this step
Commits(j) == job[j].pc = "finishing" /\ job'[j].pc = "done"

\* C1: when a scanner call of the try block has raised, the job's final
\* commit leaves status ERROR and a non-empty error_message, and the run
\* has given the analysis no Vulnerability, VulnerableDependency or Match
\* and written no result file.
C1_FailFast ==
    [][\A j \in JobIds :
          Commits(j) /\ job[j].caught # None =>
              /\ status' = STATUS_ERROR
              /\ error_message' \notin {None, EmptyStr}
              /\ analysis'[j].vulnerabilities = <<>>
              /\ analysis'[j].vulnerable_dependencies = <<>>
              /\ app_inspector'[j].match = <<>>
              /\ artifact'[j] = <<>>]_vars

\* the pattern engine raised after the dependency scan had returned, and the
\* job has committed
C1_Witness ==
    \E j \in JobIds :
        /\ job[j].pc = "done"
        /\ status = STATUS_ERROR
        /\ error_message = Repr("Exception")
        /\ analysis[j].vulnerabilities = <<>>
        /\ analysis[j].finished_on = Now

\* C3 as stated: once ABORTED is committed for a job whose termination has
\* been requested, no step of that job changes the status.
C3_AbortedStays ==
    [][\A j \in JobIds :
          TaskId(j) \in revoked /\ status = STATUS_ABORTED /\ job'[j] # job[j]
              => status' = STATUS_ABORTED]_vars

\* C3 amended: stop_analysis commits ABORTED and an empty handle and
\* requests the termination of the task whose handle it read; until the
\* termination is delivered the only step of the aborted job that changes
\* the status is its final commit, to FINISHED or ERROR; a terminated job
\* takes no further step.
C3_AbortRace ==
    [][/\ revoked' # revoked /\ revoked \subseteq revoked' =>
              /\ status = STATUS_ANALYZING
              /\ status' = STATUS_ABORTED
              /\ analysis'[project_analysis].task_id = EmptyStr
       /\ status # STATUS_ABORTED /\ status' = STATUS_ABORTED =>
              /\ analysis'[project_analysis].task_id = EmptyStr
              /\ HandleSet(analysis[project_analysis].task_id) =>
                     analysis[project_analysis].task_id \in revoked'
       /\ \A j \in JobIds :
              /\ TaskId(j) \in revoked /\ job'[j] # job[j] /\ status' # status =>
                     Commits(j) /\ status' \in {STATUS_FINISHED, STATUS_ERROR}
              /\ job[j].pc = "killed" => job'[j] = job[j]]_vars

\* the aborted job committed FINISHED before its termination was delivered
C3_Witness ==
    \E j \in JobIds :
        /\ TaskId(j) \in revoked
        /\ job[j].pc = "done"
        /\ status = STATUS_FINISHED
        /\ project_analysis = j

\* the edges of the status diagram
ForwardEdges ==
    {<<STATUS_PENDING, STATUS_ANALYZING>>, <<STATUS_ANALYZING, STATUS_FINISHED>>,
     <<STATUS_ANALYZING, STATUS_ERROR>>, <<STATUS_ANALYZING, STATUS_ABORTED>>}

C5_NoEscape ==
    \A j \in JobIds :
        /\ job[j].pc # "raised"
        /\ job[j].pc \in {"done", "raised"} =>
               ~(status = STATUS_ANALYZING /\ HandleSet(analysis[j].task_id))

\* C6: a final commit leaves status FINISHED or ERROR together with
\* finished_on set, an empty task_id, and occurences_count and risk_level
\* recomputed from the vulnerabilities of the project's analysis; no job
\* that has committed leaves its analysis with a handle or without
\* finished_on.
C6_FinalCommit ==
    /\ [](\A j \in JobIds :
             job[j].pc = "done" =>
                 /\ analysis[j].finished_on = Now
                 /\ analysis[j].task_id = EmptyStr)
    /\ [][\A j \in JobIds :
             Commits(j) =>
                 /\ status' \in {STATUS_FINISHED, STATUS_ERROR}
                 /\ status' = STATUS_ERROR <=> job[j].caught # None
                 /\ analysis'[j].finished_on = Now
                 /\ analysis'[j].task_id = EmptyStr
                 /\ occurences_count' =
                        SumOccurences(analysis'[project_analysis'].vulnerabilities)
                 /\ risk_level' =
                        calculate_risk_level(analysis'[project_analysis'].vulnerabilities)]_vars

\* a job has committed FINISHED with one Vulnerability of two occurrences
C6_Witness ==
    \E j \in JobIds :
        /\ job[j].pc = "done"
        /\ project_analysis = j
        /\ status = STATUS_FINISHED
        /\ analysis[j].task_id = EmptyStr
        /\ occurences_count = 2
        /\ risk_level = 3

\* C8: when the dependency scanner has yielded no record and the other two
\* adapters have returned, the else branch raises nothing and the final
\* commit leaves FINISHED and an empty vulnerable_dependencies collection.
C8_NoDependencyFindings ==
    /\ [](\A j \in JobIds :
             job[j].pc = "scanned" /\ job[j].sca_result = <<>> =>
                 ~Raised(ElseBranch(j)))
    /\ [][\A j \in JobIds :
             Commits(j) /\ job[j].caught = None /\ job[j].sca_result = <<>> =>
                 /\ status' = STATUS_FINISHED
                 /\ analysis'[j].vulnerable_dependencies = <<>>]_vars

\* a job whose dependency scan found nothing has committed FINISHED, with
\* the pattern engine's findings and no dependency
C8_Witness ==
    \E j \in JobIds :
        /\ job[j].pc = "done"
        /\ status = STATUS_FINISHED
        /\ artifact[j] # <<>>
        /\ analysis[j].vulnerabilities # <<>>
        /\ analysis[j].vulnerable_dependencies = <<>>

\* C9: a missing result file of the dependency scanner is zero findings:
\* no job catches the failure to open it, and no run is turned into ERROR
\* by it.
C9_MissingFileIsNoError ==
    /\ \A j \in JobIds : job[j].caught # "FileNotFoundError"
    /\ error_message # Repr("FileNotFoundError")

\* C10: a launch request without a rule pack is rejected with nothing
\* written: no Analysis, no staged rule, no job, status and Project.analysis
\* as they were; every Analysis there is has a rule pack.
C10_NoRulePackRejected ==
    /\ [](\A a \in 1..Len(analysis) : analysis[a].rule_packs # {})
    /\ [][flashed' = MsgNoRulePack /\ flashed # MsgNoRulePack =>
             UNCHANGED <<status, error_message, occurences_count, risk_level,
                         project_analysis, analysis, app_inspector, rules_dir,
                         artifact, job, revoked>>]_vars

\* a request without a rule pack has been rejected on a project whose run
\* is over
C10_Witness ==
    /\ flashed = MsgNoRulePack
    /\ status = STATUS_FINISHED
    /\ Len(analysis) = 1
    /\ rules_dir # {}

\* C11: a launch whose rule staging fails (import_rules has touched the
\* rules folder and no job is enqueued) ends with status ERROR and a
\* non-empty error_message.
C11_StagingFailureIsError ==
    [][rules_dir' # rules_dir /\ Len(job') = Len(job) =>
          /\ status' = STATUS_ERROR
          /\ error_message' \notin {None, EmptyStr}]_vars

(***************************************************************************)
(* SpecStage: up to MaxStagings calls of import_rules on one rules folder, *)
(* which holds anything before the first call.  n_input is the list of the *)
(* calls made, n_result the outcome of the last one.                       *)
(***************************************************************************)
StagePackIds == {"pack", "sql", "crypto"}

\* which rule source files exist under RULES_PATH
StageSourceStates == SUBSET AllRuleSources

\* what the folder holds before the first call
PriorFolders ==
    {{}, {"leftover.yml"}, {"leftover.yml", "repo_java.md5.yml"}}

StageInit ==
    /\ status = InitialStatus
    /\ error_message = None
    /\ occurences_count = 0
    /\ risk_level = 0
    /\ project_analysis = 0
    /\ analysis = <<>>
    /\ app_inspector = <<>>
    /\ rules_dir \in PriorFolders
    /\ artifact = <<>>
    /\ job = <<>>
    /\ revoked = {}
    /\ flashed = None
    /\ n_input = <<>>
    /\ n_result = <<>>

\* import_rules(analysis, rule_folder) for an analysis with the packs
StageCall ==
    \E packs \in SUBSET StagePackIds, sources \in StageSourceStates :
        /\ Len(n_input) < MaxStagings
        /\ rules_dir' = import_rules(rules_dir, packs, sources).dir
        /\ n_input' = Append(n_input, [packs |-> packs, sources |-> sources])
        /\ n_result' = <<import_rules(rules_dir, packs, sources).exc>>
        /\ UNCHANGED <<status, error_message, occurences_count, risk_level,
                       project_analysis, analysis, app_inspector, artifact,
                       job, revoked, flashed>>

StageNext == StageCall

SpecStage == StageInit /\ [][StageNext]_vars

\* the last call returned without raising
Staged == n_result = <<None>>

\* the names of the staged files of the packs' rules
StagedFiles(packs) ==
    {StagedName(RulesOf(p)[i]) : <<p, i>> \in
        {<<q, k>> \in packs \X (1..2) : k <= Len(RulesOf(q))}}

\* C12: after a successful import_rules the folder holds exactly the staged
\* files of the packs of that call, whatever it held before; a successful
\* call repeated with the same packs leaves the folder as it was.
C12_ExactlyTheCurrentPacks ==
    /\ [](Staged => rules_dir = StagedFiles(Last(n_input).packs))
    /\ [][Staged /\ Staged' /\ Len(n_input') = Len(n_input) + 1
             /\ Last(n_input').packs = Last(n_input).packs
          => rules_dir' = rules_dir]_vars

\* both rules were staged, then the pack "crypto" alone: its file is all
\* the folder holds
C12_Witness ==
    /\ Staged
    /\ Len(n_input) = 2
    /\ n_input[1].packs = {"pack"}
    /\ n_input[1].sources = AllRuleSources
    /\ n_input[2].packs = {"crypto"}
    /\ rules_dir = {"repo_java.md5.yml"}

(***************************************************************************)
(* SpecArtifact: up to MaxRuns runs of the try / except / else statement   *)
(* of async_scan (util.py:78-98) for one analysis id, on the file          *)
(* analysis_<id>.json, which may hold a document before the first run.     *)
(* artifact[1] is the file, n_result the list of the runs' outcomes.       *)
(***************************************************************************)
\* how a run ends: the except branch, an exception of the else branch, or
\* the else branch to its end
RunOutcome(f, run, irun) ==
    LET sca == sca_scan(f)
        sem == semgrep_scan(run)
        ins == application_inspector_scan(irun)
    IN  IF Raised(sca) \/ Raised(sem) \/ Raised(ins)
        THEN [status |-> STATUS_ERROR, saved |-> FALSE]
        ELSE IF \/ Raised(load_scan_results(<<>>, sem.val))
                \/ Raised(load_sca_scan_results(<<>>, sca.val))
                \/ Raised(load_scan_app_inspector(<<>>, ins.val))
             THEN [status |-> "raised", saved |-> FALSE]
             ELSE [status |-> STATUS_FINISHED, saved |-> TRUE,
                   semgrep_result |-> sem.val]

\* the pattern engine's runs of this specification: an error, findings, none
ArtifactEngineRuns ==
    EngineRuns \cup {[error |-> FALSE, output |-> ObjectOutput(TRUE, <<>>)]}

ArtifactInit ==
    /\ status = InitialStatus
    /\ error_message = None
    /\ occurences_count = 0
    /\ risk_level = 0
    /\ project_analysis = 0
    /\ analysis = <<>>
    /\ app_inspector = <<>>
    /\ rules_dir = {}
    /\ artifact \in {<<<<>>>>, <<<<NullOutput>>>>}
    /\ job = <<>>
    /\ revoked = {}
    /\ flashed = None
    /\ n_input = <<>>
    /\ n_result = <<>>

\* one run of util.py:78-98
ArtifactRun ==
    \E f \in DepscanFiles, run \in ArtifactEngineRuns, irun \in InspectorRuns :
        LET out == RunOutcome(f, run, irun)
        IN  /\ Len(n_result) < MaxRuns
            /\ n_result' = Append(n_result, out.status)
            /\ artifact' = IF out.saved
                           THEN [artifact EXCEPT
                                   ![1] = save_result(@, out.semgrep_result)]
                           ELSE artifact
            /\ UNCHANGED <<status, error_message, occurences_count,
                           risk_level, project_analysis, analysis,
                           app_inspector, rules_dir, job, revoked, flashed,
                           n_input>>

ArtifactNext == ArtifactRun

SpecArtifact == ArtifactInit /\ [][ArtifactNext]_vars

\* s is a prefix of t
IsPrefix(s, t) == Len(s) <= Len(t) /\ SubSeq(t, 1, Len(s)) = s

\* C13: the file analysis_<id>.json only grows at its end: after every run
\* its earlier content is a prefix of its content, a run that reaches
\* FINISHED has appended exactly one document, and a run that ends in ERROR
\* has left the file as it was.
C13_AppendOnly ==
    [][/\ IsPrefix(artifact[1], artifact'[1])
       /\ Len(n_result') = Len(n_result) + 1 =>
             IF Last(n_result') = STATUS_FINISHED
             THEN Len(artifact'[1]) = Len(artifact[1]) + 1
             ELSE artifact'[1] = artifact[1]]_vars

\* a file that held a document has been through a successful run, a run
\* ending in ERROR and a second successful run: it holds three documents,
\* the first one first
C13_Witness ==
    /\ n_result = <<STATUS_FINISHED, STATUS_ERROR, STATUS_FINISHED>>
    /\ Len(artifact[1]) = 3
    /\ artifact[1][1] = NullOutput
    /\ artifact[1][2] # artifact[1][3]

(***************************************************************************)
(* SpecOcc: load_occurence (util.py:397-417) applied to one record, for    *)
(* every path made of at most MaxSegments pieces and every pair of start   *)
(* and end lines up to MaxLine.  n_input is the record, n_result what      *)
(* load_occurence returned.                                                *)
(***************************************************************************)
\* the pieces: each token alone, and the two halves of a match of the
\* pattern
PathSegments ==
    {<<"P">>, <<"E">>, <<"/">>, <<"d">>, <<"x">>,
     <<"P", "d", "/", "E">>, <<"d", "/", "E">>}

RECURSIVE Concat(_)
Concat(ss) == IF Len(ss) = 0 THEN <<>> ELSE ss[1] \o Concat(Tail(ss))

OccPaths == {Concat(ss) : ss \in SeqsUpTo(PathSegments, MaxSegments)}

OccInputs ==
    {[Rec(<<"a">>, start, Absent) EXCEPT !.end_line = end, !.path = path] :
        start \in 1..MaxLine, end \in 1..MaxLine, path \in OccPaths}

OccInit ==
    /\ status = InitialStatus
    /\ error_message = None
    /\ occurences_count = 0
    /\ risk_level = 0
    /\ project_analysis = 0
    /\ analysis = <<>>
    /\ app_inspector = <<>>
    /\ rules_dir = {}
    /\ artifact = <<>>
    /\ job = <<>>
    /\ revoked = {}
    /\ flashed = None
    /\ n_input \in OccInputs
    /\ n_result = <<>>

\* load_occurence(semgrep_result)
OccLoadOccurence ==
    /\ n_result = <<>>
    /\ n_result' = <<load_occurence(n_input)>>
    /\ UNCHANGED <<orchVars, n_input>>

OccNext == OccLoadOccurence

SpecOcc == OccInit /\ [][OccNext]_vars

\* load_occurence has returned an Occurence
OccReturned == n_result # <<>> /\ ~Raised(n_result[1])

\* C14: the Occurence load_occurence returns has line_end >= line_start,
\* whatever the record's lines are.
C14_LineEndNotBeforeStart ==
    OccReturned =>
        n_result[1].val.position.line_end >= n_result[1].val.position.line_start

\* C15: stripping the stored file_path again returns it unchanged.
C15_StripIdempotent ==
    OccReturned =>
        StripPath(n_result[1].val.file_path) = n_result[1].val.file_path

\* C16: no match of the extraction-path pattern starts anywhere in the
\* stored file_path.
C16_NoPrefixLeft ==
    OccReturned =>
        \A i \in 1..Len(n_result[1].val.file_path) :
            MatchEnd(n_result[1].val.file_path, i) = 0

(***************************************************************************)
(* SpecFields: each normaliser applied to a payload of one record, for     *)
(* every combination of the record's members being there or not.  n_input  *)
(* is [tool, record], n_result what the normaliser returned.               *)
(***************************************************************************)
\* a member that may be missing, a scalar, an empty list or a list
MemberShapes(v) == {Absent, Scalar(v), List(<<>>), List(<<v, "other">>)}

\* pattern-engine records
FieldsEngineRecords ==
    {[Rec(<<"r", ".", "a">>, 1, cwe) EXCEPT
         !.has_extra = has_extra, !.message = message,
         !.has_metadata = has_metadata, !.owasp = owasp,
         !.references = references] :
        has_extra \in BOOLEAN, has_metadata \in BOOLEAN,
        message \in {Absent, Scalar("msg")},
        cwe \in MemberShapes("CWE-89"), owasp \in MemberShapes("A1"),
        references \in {Absent, List(<<"ref1", "ref2">>)}}

\* dependency-scan records
FieldsDepRecords ==
    {Dep(1, missing) : missing \in SUBSET {"id", "purl", "related_urls"}}

\* entries of the inspector's detailedMatchList
FieldsEntries ==
    {[Entry("crypto", "e1") EXCEPT !.has_location = has_location,
                                    !.severity = severity] :
        has_location \in BOOLEAN, severity \in {Absent, Scalar("moderate")}}

FieldsInputs ==
    {[tool |-> "semgrep", record |-> r] : r \in FieldsEngineRecords}
        \cup {[tool |-> "depscan", record |-> r] : r \in FieldsDepRecords}
        \cup {[tool |-> "inspector", record |-> r] : r \in FieldsEntries}

FieldsInit == OrchInit /\ n_input \in FieldsInputs /\ n_result = <<>>

\* load_scan_results on a payload of the one record
FieldsLoadScanResults ==
    /\ n_result = <<>> /\ n_input.tool = "semgrep"
    /\ n_result' = <<load_scan_results(<<>>,
                        ObjectOutput(TRUE, <<n_input.record>>))>>
    /\ UNCHANGED <<orchVars, n_input>>

\* load_sca_scan_results on the one record
FieldsLoadScaScanResults ==
    /\ n_result = <<>> /\ n_input.tool = "depscan"
    /\ n_result' = <<load_sca_scan_results(<<>>, <<n_input.record>>)>>
    /\ UNCHANGED <<orchVars, n_input>>

\* load_scan_app_inspector on a payload of the one entry
FieldsLoadScanAppInspector ==
    /\ n_result = <<>> /\ n_input.tool = "inspector"
    /\ n_result' = <<load_scan_app_inspector(<<>>,
                        InspectorPayload(TRUE, TRUE, <<n_input.record>>))>>
    /\ UNCHANGED <<orchVars, n_input>>

FieldsNext ==
    \/ FieldsLoadScanResults
    \/ FieldsLoadScaScanResults
    \/ FieldsLoadScanAppInspector

SpecFields == FieldsInit /\ [][FieldsNext]_vars

\* C17: whatever members the record lacks, the normaliser returns without
\* raising.
C17_MissingFieldsTolerated ==
    n_result # <<>> => ~Raised(n_result[1])

(***************************************************************************)
(* SpecInspector: load_scan_app_inspector applied to every payload of at   *)
(* most MaxRecords entries, on a fresh AppInspector.                       *)
(***************************************************************************)
\* entries with two rule names, two entries of each
InspectorEntries ==
    {Entry("crypto", "e1"), Entry("crypto", "e2"),
     Entry("net", "e3"), Entry("net", "e4")}

InspectorInputs ==
    {EmptyPayload, InspectorPayload(FALSE, FALSE, <<>>),
     InspectorPayload(TRUE, FALSE, <<>>)}
        \cup {InspectorPayload(TRUE, TRUE, es) :
                 es \in SeqsUpTo(InspectorEntries, MaxRecords)}

InspectorInit == OrchInit /\ n_input \in InspectorInputs /\ n_result = <<>>

\* load_scan_app_inspector(app_inspector, app_inspector_result) on a fresh
\* AppInspector
InspectorLoad ==
    /\ n_result = <<>>
    /\ n_result' = <<load_scan_app_inspector(<<>>, n_input)>>
    /\ UNCHANGED <<orchVars, n_input>>

InspectorNext == InspectorLoad

SpecInspector == InspectorInit /\ [][InspectorNext]_vars

\* the entries of the payload's detailedMatchList
InspectorDetailed ==
    IF n_input.kind = "object" /\ n_input.has_metaData /\ n_input.has_list
    THEN n_input.detailed ELSE <<>>

\* the tags of the entries with rule name t, in the entries' order
ExpectedTags(t, detailed) ==
    LET sel == SelectSeq(detailed, LAMBDA d : d.ruleName = t)
    IN  [i \in 1..Len(sel) |-> load_tags(sel[i]).val]

\* C18: after load_scan_app_inspector on a fresh AppInspector, a payload
\* whose entries have M distinct rule names leaves exactly M Match objects
\* in app_inspector.match, with pairwise distinct titles, and the Match
\* titled t holds the tags of the entries named t, in the entries' order.
C18_OneMatchPerRuleName ==
    n_result # <<>> /\ ~Raised(n_result[1]) =>
        LET match == n_result[1].val
            names == {InspectorDetailed[i].ruleName :
                         i \in 1..Len(InspectorDetailed)}
        IN  /\ Len(match) = Cardinality(names)
            /\ \A a, b \in 1..Len(match) :
                  a # b => match[a].title # match[b].title
            /\ \A k \in 1..Len(match) :
                  match[k].tag = ExpectedTags(match[k].title, InspectorDetailed)

(***************************************************************************)
(* SpecSca: load_sca_scan_results applied to every list of at most MaxDeps *)
(* dependency-scan records, on a fresh Analysis.                           *)
(***************************************************************************)
\* two well-formed records and one without "id"
ScaRecords == {Dep(1, {}), Dep(2, {}), Dep(3, {"id"})}

ScaInputs == SeqsUpTo(ScaRecords, MaxDeps)

ScaInit == OrchInit /\ n_input \in ScaInputs /\ n_result = <<>>

\* load_sca_scan_results(analysis, sca_results) on a fresh Analysis
ScaLoad ==
    /\ n_result = <<>>
    /\ n_result' = <<load_sca_scan_results(<<>>, n_input)>>
    /\ UNCHANGED <<orchVars, n_input>>

ScaNext == ScaLoad

SpecSca == ScaInit /\ [][ScaNext]_vars

\* every record of the list has all its keys
WellFormed(sca_results) ==
    \A i \in 1..Len(sca_results) : sca_results[i].missing = {}

\* C19: for a list of N well-formed records, load_sca_scan_results returns
\* and analysis.vulnerable_dependencies holds N objects, the i-th with the
\* id, package and severity of the i-th record, equal records included.
C19_OneDependencyPerRecord ==
    n_result # <<>> /\ WellFormed(n_input) =>
        /\ ~Raised(n_result[1])
        /\ Len(n_result[1].val) = Len(n_input)
        /\ \A i \in 1..Len(n_input) :
              /\ n_result[1].val[i].common_id = n_input[i].id
              /\ n_result[1].val[i].package = n_input[i].package
              /\ n_result[1].val[i].severity = n_input[i].severity
              /\ n_result[1].val[i].related_urls = "u1,u2"

\* three records, the first and the last equal, have given three objects
C19_Witness ==
    /\ n_input = <<Dep(1, {}), Dep(2, {}), Dep(1, {})>>
    /\ n_result # <<>>
    /\ Len(n_result[1].val) = 3
    /\ n_result[1].val[3] = n_result[1].val[1]

(***************************************************************************)
(* Claim about concurrent scans of one project, checked under Spec.        *)
(***************************************************************************)
\* job j is enqueued or running
InFlight(j) == job[j].pc = "queued" \/ Running(j)

\* C20: at most one job of the project is in flight at any time, and the
\* rules folder is not touched by import_rules while a job is in flight.
C20_OneJobInFlight ==
    /\ [](Cardinality({j \in JobIds : InFlight(j)}) <= 1)
    /\ [][rules_dir' # rules_dir => \A j \in JobIds : ~InFlight(j)]_vars

(***************************************************************************)
(* Claims about the order of the writes of a launch and of a job, checked  *)
(* under Spec.                                                             *)
(***************************************************************************)
\* C21: a job is enqueued in the step that has committed its Analysis with
\* the rule packs, the staged rules and status PENDING; every job has its
\* Analysis, and a job's first commit finds it, with no handle yet, and
\* leaves ANALYZING.
C21_EnqueuedAfterCommit ==
    /\ [](Len(job) = Len(analysis))
    /\ [][Len(job') > Len(job) =>
             /\ Len(job') = Len(job) + 1
             /\ Len(analysis') = Len(job')
             /\ job'[Len(job')].pc = "queued"
             /\ analysis'[Len(job')].rule_packs # {}
             /\ rules_dir' = StagedFiles(analysis'[Len(job')].rule_packs)
             /\ project_analysis' = Len(job')
             /\ status' = STATUS_PENDING]_vars
    /\ [][\A j \in JobIds :
             Starts(j) =>
                 /\ ~HandleSet(analysis[j].task_id)
                 /\ analysis'[j].rule_packs = analysis[j].rule_packs
                 /\ status' = STATUS_ANALYZING]_vars

\* the job of the second launch has started on a project whose first run
\* is over
C21_Witness ==
    /\ Len(job) = 2
    /\ job[1].pc = "done"
    /\ job[2].pc = "started"
    /\ status = STATUS_ANALYZING
    /\ analysis[2].task_id = TaskId(2)

\* C22: a job changes what is committed in two steps only, its first and
\* its final commit; until its final commit its Analysis and AppInspector
\* show no vulnerability, vulnerable dependency, match or finish time, and
\* the commit that shows FINISHED shows the three collections as the job
\* loaded them.
C22_ResultsVisibleAtOnce ==
    /\ [](\A j \in JobIds :
             job[j].pc # "done" =>
                 /\ analysis[j].vulnerabilities = <<>>
                 /\ analysis[j].vulnerable_dependencies = <<>>
                 /\ app_inspector[j].match = <<>>
                 /\ analysis[j].finished_on = None)
    /\ [][\A j \in JobIds :
             /\ job'[j] # job[j]
             /\ \/ analysis'[j] # analysis[j]
                \/ app_inspector'[j] # app_inspector[j]
                \/ status' # status
             => Starts(j) \/ Commits(j)]_vars
    /\ [][\A j \in JobIds :
             Commits(j) /\ status' = STATUS_FINISHED =>
                 /\ analysis'[j].vulnerabilities = job[j].session.vulnerabilities
                 /\ analysis'[j].vulnerable_dependencies =
                        job[j].session.vulnerable_dependencies
                 /\ app_inspector'[j].match = job[j].session.match]_vars

\* a job has loaded its results and not committed yet: the project is
\* ANALYZING and the Analysis shows none of them
C22_Witness ==
    \E j \in JobIds :
        /\ job[j].pc = "finishing"
        /\ job[j].session.vulnerabilities # <<>>
        /\ job[j].session.vulnerable_dependencies # <<>>
        /\ job[j].session.match # <<>>
        /\ status = STATUS_ANALYZING
        /\ analysis[j].vulnerabilities = <<>>

\* C23: the step that writes ABORTED changes, of what is stored, only the
\* status and the task_id of the project's analysis, which it empties:
\* findings, timestamps, error_message, occurences_count, risk_level and
\* the result files stay as they were.
C23_AbortFrame ==
    [][status # STATUS_ABORTED /\ status' = STATUS_ABORTED =>
          /\ analysis' = [analysis EXCEPT ![project_analysis].task_id = EmptyStr]
          /\ UNCHANGED <<error_message, occurences_count, risk_level,
                         project_analysis, app_inspector, artifact,
                         rules_dir, job>>]_vars

\* a project whose analysis holds committed findings has been aborted, and
\* holds them still
C23_Witness ==
    /\ status = STATUS_ABORTED
    /\ project_analysis # 0
    /\ analysis[project_analysis].vulnerabilities # <<>>
    /\ analysis[project_analysis].finished_on = Now
    /\ analysis[project_analysis].task_id = EmptyStr
    /\ occurences_count = 2
    /\ artifact[project_analysis] # <<>>

(***************************************************************************)
(* Claim about a failing import_rules, checked under SpecStage.            *)
(***************************************************************************)
\* C24: when a source file of a rule of the selected packs is missing,
\* import_rules raises an IOError-class error and the folder holds none of
\* the rules of the call.
C24_AllOrNothing ==
    n_result # <<>> /\ ~Staged =>
        /\ n_result = <<"FileNotFoundError">>
        /\ rules_dir \cap StagedFiles(Last(n_input).packs) = {}

(***************************************************************************)
(* SpecOptions: generate_semgrep_options (util.py:420-454) for every       *)
(* selection of rule packs and every content of the source folder.  A file *)
(* name and an extension are sequences of name parts; n_input is           *)
(* [rule_packs, files, ignore_filenames], n_result what is returned.       *)
(***************************************************************************)
\* c_rule_pack.languages, each with its extensions already split at ","
\* (an empty element is what a trailing comma leaves)
LanguagesOf(pack) ==
    LET python == <<<<".py">>, <<>>>>
        typescript == <<<<".ts">>, <<".d", ".ts">>>>
    IN  CASE pack = "django" -> <<python>>
          [] pack = "flask" -> <<python>>
          [] OTHER -> <<typescript>>

OptionPackIds == {"django", "flask", "web"}

\* the files under the scan path
SourceFiles ==
    {<<"a", ".py">>, <<"b", ".ts">>, <<"c", ".d", ".ts">>, <<"d", ".txt">>}

RECURSIVE SetToSeq(_)
SetToSeq(S) ==
    IF S = {} THEN <<>>
    ELSE LET x == CHOOSE y \in S : TRUE IN <<x>> \o SetToSeq(S \ {x})

\* name ends with ext
EndsWith(name, ext) ==
    /\ Len(ext) <= Len(name)
    /\ SubSeq(name, Len(name) - Len(ext) + 1, Len(name)) = ext

\* util.py:451-453  glob(scan_path/**/*<ext>, recursive=True)
Glob(files, ext) == SetToSeq({f \in files : EndsWith(f, ext)})

\* filter(None, xs): the empty elements removed
FilterNone(xs) == SelectSeq(xs, LAMBDA x : x # <<>>)

RECURSIVE GlobExtensions(_, _)
\* util.py:450-453
GlobExtensions(files, extensions) ==
    IF Len(extensions) = 0 THEN <<>>
    ELSE Glob(files, extensions[1]) \o GlobExtensions(files, Tail(extensions))

RECURSIVE GlobLanguages(_, _)
\* util.py:447-453
GlobLanguages(files, languages) ==
    IF Len(languages) = 0 THEN <<>>
    ELSE GlobExtensions(files, FilterNone(languages[1]))
             \o GlobLanguages(files, Tail(languages))

RECURSIVE GlobPacks(_, _)
\* util.py:446-453
GlobPacks(files, rule_packs) ==
    IF Len(rule_packs) = 0 THEN <<>>
    ELSE GlobLanguages(files, LanguagesOf(rule_packs[1]))
             \o GlobPacks(files, Tail(rule_packs))

\* generate_semgrep_options(analysis)
generate_semgrep_options(rule_packs, files, ignore_filenames) ==
    [files_to_scan |-> GlobPacks(files, rule_packs),
     project_rules_path |-> "rules",
     ignore |-> {ignore_filenames[i] : i \in 1..Len(ignore_filenames)}
                    \ {EmptyStr}]

OptionInputs ==
    [rule_packs : {SetToSeq(ps) : ps \in SUBSET OptionPackIds},
     files : SUBSET SourceFiles,
     ignore_filenames : {<<EmptyStr>>, <<"x.py", EmptyStr, "x.py">>}]

OptionInit == OrchInit /\ n_input \in OptionInputs /\ n_result = <<>>

OptionGenerate ==
    /\ n_result = <<>>
    /\ n_result' = <<generate_semgrep_options(n_input.rule_packs,
                         n_input.files, n_input.ignore_filenames)>>
    /\ UNCHANGED <<orchVars, n_input>>

OptionNext == OptionGenerate

SpecOptions == OptionInit /\ [][OptionNext]_vars

\* C25: no file is listed twice in files_to_scan.
C25_EachFileOnce ==
    n_result # <<>> =>
        \A a, b \in 1..Len(n_result[1].files_to_scan) :
            a # b => n_result[1].files_to_scan[a] # n_result[1].files_to_scan[b]

(***************************************************************************)
(* SpecMeta: load_scan_results on a fresh Analysis, for payloads of at     *)
(* most MaxRecords records whose metadata differ from record to record.    *)
(***************************************************************************)
MetaRec(check_id, message, has_metadata, cwe, owasp, references) ==
    [check_id |-> check_id, path |-> <<"P", "d", "/", "E", "/", "x">>,
     start_line |-> 1, end_line |-> 1, lines |-> "code",
     has_extra |-> TRUE, message |-> message, has_metadata |-> has_metadata,
     cwe |-> cwe, owasp |-> owasp, references |-> references]

\* three records titled a and three titled b
MetaRecords ==
    {MetaRec(<<"r", ".", "a">>, Scalar("m1"), TRUE,
             List(<<"CWE-89", "CWE-79">>), List(<<"A1", "A3">>),
             List(<<"u1", "u2">>)),
     MetaRec(<<"s", ".", "a">>, Scalar("m2"), TRUE,
             Scalar("CWE-327"), Scalar("A2"), Absent),
     MetaRec(<<"a">>, Scalar("m1"), TRUE, Absent, Absent, List(<<"u3">>)),
     MetaRec(<<"r", ".", "b">>, Scalar("m2"), TRUE,
             List(<<"CWE-79", "CWE-89">>), Scalar("A1"), List(<<"u1">>)),
     MetaRec(<<"b">>, Absent, FALSE, Absent, Absent, Absent),
     MetaRec(<<"s", ".", "b">>, Scalar("m1"), TRUE,
             Scalar("CWE-89"), List(<<"A2", "A1">>), Absent)}

MetaInputs ==
    {ObjectOutput(TRUE, rs) : rs \in SeqsUpTo(MetaRecords, MaxRecords)}

MetaInit == OrchInit /\ n_input \in MetaInputs /\ n_result = <<>>

\* load_scan_results(analysis, semgrep_output) on a fresh Analysis
MetaLoadScanResults ==
    /\ n_result = <<>>
    /\ n_result' = <<load_scan_results(<<>>, n_input)>>
    /\ UNCHANGED <<orchVars, n_input>>

MetaNext == MetaLoadScanResults

SpecMeta == MetaInit /\ [][MetaNext]_vars

(***************************************************************************)
(* Claim about the metadata of a Vulnerability, checked under SpecMeta.    *)
(***************************************************************************)
\* the first record of the payload titled t
FirstTitled(t, results) ==
    results[Min({i \in 1..Len(results) : TitleOf(results[i].check_id) = t})]

\* the first entry of a list member, the value of a scalar member
FirstEntry(m) ==
    CASE m.kind = "list" -> m.v[1]
      [] m.kind = "scalar" -> m.v
      [] OTHER -> None

\* C26: every Vulnerability that load_scan_results creates has the
\* description, cwe, owasp, references and severity of the first record with
\* its title, whatever the later records with this title hold; of a list cwe
\* or owasp the first entry is stored, of a scalar one the scalar.
C26_FirstSeenMetadata ==
    NormReturned =>
        \A k \in 1..Len(n_result[1].val.vulns) :
            LET v == n_result[1].val.vulns[k]
                r == FirstTitled(v.title, NormResults)
            IN  /\ v.description =
                       (IF r.message.kind = "absent" THEN None ELSE r.message.v)
                /\ r.has_metadata =>
                       /\ v.cwe = FirstEntry(r.cwe)
                       /\ v.owasp = FirstEntry(r.owasp)
                       /\ v.references =
                              (IF r.references.kind = "absent" THEN None
                               ELSE JoinSpace(r.references.v))
                       /\ v.severity = generate_severity(FirstEntry(r.cwe))
                /\ ~r.has_metadata =>
                       /\ v.cwe = None /\ v.owasp = None
                       /\ v.references = None /\ v.severity = None

\* a record with a list of two CWE ids was followed by a record with the
\* same title and another cwe, and load_scan_results returned
C26_Witness ==
    /\ NormReturned
    /\ \E i, j \in 1..Len(NormResults) :
          /\ i < j
          /\ TitleOf(NormResults[i].check_id) = TitleOf(NormResults[j].check_id)
          /\ \A h \in 1..(i - 1) : TitleOf(NormResults[h].check_id)
                                       # TitleOf(NormResults[i].check_id)
          /\ NormResults[i].cwe.kind = "list"
          /\ Len(NormResults[i].cwe.v) = 2
          /\ NormResults[j].cwe.kind = "scalar"
          /\ \E k \in 1..Len(n_result[1].val.vulns) :
                /\ n_result[1].val.vulns[k].title = TitleOf(NormResults[i].check_id)
                /\ n_result[1].val.vulns[k].cwe = NormResults[i].cwe.v[1]
                /\ Len(n_result[1].val.vulns[k].occurences) >= 2

(***************************************************************************)
(* SpecSorted: vulnerabilities_sorted_by_severity (util.py:487-506) for    *)
(* every analysis.vulnerabilities of at most MaxVulns Vulnerability        *)
(* objects; n_input is the list before the call, n_result holds what is    *)
(* returned and the list after the call.                                   *)
(***************************************************************************)
\* variant: list.append in place of list.insert(0, .)
InsertLast(xs, x) == Append(xs, x)

\* xs.insert(0, x)
InsertFirst(xs, x) == <<x>> \o xs

RECURSIVE SortLoop(_, _, _, _)
\* util.py:498-504  for c_vulns in analysis.vulnerabilities
SortLoop(vulnerabilities, i, r_vulns, low_vulns) ==
    IF i > Len(vulnerabilities)
    THEN [r_vulns |-> r_vulns, low_vulns |-> low_vulns]
    ELSE LET c_vulns == vulnerabilities[i]
         IN  IF c_vulns.severity = SEVERITY_HIGH
             THEN SortLoop(vulnerabilities, i + 1,
                           InsertFirst(r_vulns, c_vulns), low_vulns)
             ELSE IF c_vulns.severity = SEVERITY_MEDIUM
             THEN SortLoop(vulnerabilities, i + 1,
                           Append(r_vulns, c_vulns), low_vulns)
             ELSE SortLoop(vulnerabilities, i + 1,
                           r_vulns, Append(low_vulns, c_vulns))

\* vulnerabilities_sorted_by_severity(analysis): the list returned, and
\* analysis.vulnerabilities, which the function only iterates
vulnerabilities_sorted_by_severity(vulnerabilities) ==
    LET end == SortLoop(vulnerabilities, 1, <<>>, <<>>)
    IN  [returned |-> end.r_vulns \o end.low_vulns,
         vulnerabilities |-> vulnerabilities]

\* the values of Vulnerability.severity: generate_severity's three, and None
\* for a finding without metadata
SeveritySet == {SEVERITY_HIGH, SEVERITY_MEDIUM, SEVERITY_LOW, None}

\* lists of Vulnerability objects, the object's identity being id
SortedInputs ==
    {[i \in 1..Len(sev) |-> [id |-> i, severity |-> sev[i]]] :
        sev \in SeqsUpTo(SeveritySet, MaxVulns)}

SortedInit == OrchInit /\ n_input \in SortedInputs /\ n_result = <<>>

SortedCall ==
    /\ n_result = <<>>
    /\ n_result' = <<vulnerabilities_sorted_by_severity(n_input)>>
    /\ UNCHANGED <<orchVars, n_input>>

SortedNext == SortedCall

SpecSorted == SortedInit /\ [][SortedNext]_vars

\* how often x occurs in xs
Occurs(x, xs) == Cardinality({i \in 1..Len(xs) : xs[i] = x})

\* 1 for high, 2 for medium, 3 for every other severity
SeverityRank(severity) ==
    CASE severity = SEVERITY_HIGH -> 1
      [] severity = SEVERITY_MEDIUM -> 2
      [] OTHER -> 3

\* C27: the list returned holds the elements of analysis.vulnerabilities,
\* each as often as the list does, with every high one before every medium
\* one and every medium one before every other one; analysis.vulnerabilities
\* is as before the call.
C27_SortedPermutation ==
    n_result # <<>> =>
        LET returned == n_result[1].returned
        IN  /\ Len(returned) = Len(n_input)
            /\ \A i \in 1..Len(n_input) :
                   Occurs(n_input[i], returned) = Occurs(n_input[i], n_input)
            /\ \A a, b \in 1..Len(returned) :
                   a < b => SeverityRank(returned[a].severity)
                                <= SeverityRank(returned[b].severity)
            /\ n_result[1].vulnerabilities = n_input

\* the function has run on a list with a low one before a medium one before
\* a high one
C27_Witness ==
    /\ n_result # <<>>
    /\ \E a, b, c \in 1..Len(n_input) :
          /\ a < b /\ b < c
          /\ n_input[a].severity \notin {SEVERITY_HIGH, SEVERITY_MEDIUM}
          /\ n_input[b].severity = SEVERITY_MEDIUM
          /\ n_input[c].severity = SEVERITY_HIGH
    /\ n_result[1].returned[1].severity = SEVERITY_HIGH

(***************************************************************************)
(* SpecCodeview: analysis_codeview (routes.py:94-129) for every stored     *)
(* occurence.file_path of at most MaxSegments segments.  A path is the     *)
(* sequence of its segments, and a text the sequence of its characters;    *)
(* the filesystem has no symbolic links, every directory holds the         *)
(* directories e and ex and the regular file f.                            *)
(***************************************************************************)
\* PROJECTS_SRC_PATH/<project_id>/EXTRACT_FOLDER_NAME as segments: /p/1/e
SourcePath == <<"p", "1", "e">>

\* the segments occurence.file_path is made of
CodeviewSegments == {"..", "e", "ex", "f"}

\* the characters of a segment
SegmentChars(seg) ==
    CASE seg = "ex" -> <<"e", "x">>
      [] seg = ".." -> <<".", ".">>
      [] OTHER -> <<seg>>

\* os.path.join(source_path, file_path): an absolute file_path replaces
\* source_path
PathJoin(source_path, file_path) ==
    IF file_path.absolute THEN file_path.segments
    ELSE source_path \o file_path.segments

RECURSIVE Resolve(_, _)
\* os.path.realpath without symbolic links: ".." drops the segment before
\* it, and stays at the root
Resolve(segs, acc) ==
    IF Len(segs) = 0 THEN acc
    ELSE IF segs[1] = ".."
    THEN Resolve(Tail(segs),
                 IF Len(acc) = 0 THEN acc ELSE SubSeq(acc, 1, Len(acc) - 1))
    ELSE Resolve(Tail(segs), Append(acc, segs[1]))

RealPath(segs) == Resolve(segs, <<>>)

RECURSIVE PathChars(_)
\* the text of an absolute path
PathChars(segs) ==
    IF Len(segs) = 0 THEN <<>>
    ELSE <<"/">> \o SegmentChars(segs[1]) \o PathChars(Tail(segs))

PathText(segs) == IF Len(segs) = 0 THEN <<"/">> ELSE PathChars(segs)

\* os.path.commonprefix((a, b)): the longest common prefix, character by
\* character
CommonPrefix(a, b) ==
    LET n == IF Len(a) < Len(b) THEN Len(a) ELSE Len(b)
        agree == {k \in 0..n : \A i \in 1..k : a[i] = b[i]}
        m == CHOOSE k \in agree : \A h \in agree : h <= k
    IN  SubSeq(a, 1, m)

\* open(file, "r"): f is a regular file, everything else a directory
OpenFile(segs) ==
    LET real == RealPath(segs)
    IN  IF \E i \in 1..(Len(segs) - 1) : segs[i] = "f"
        THEN Raise("NotADirectoryError")
        ELSE IF Len(real) = 0 \/ Last(real) # "f"
        THEN Raise("IsADirectoryError")
        ELSE Ok(real)

\* analysis_codeview(occurence_id): the response's status and the file read
analysis_codeview(file_path) ==
    LET file == PathJoin(SourcePath, file_path)
        common_prefix == CommonPrefix(PathText(RealPath(file)),
                                      PathText(RealPath(SourcePath)))
    IN  IF common_prefix # PathText(RealPath(SourcePath))
        THEN [code |-> 403, read |-> None]
        ELSE LET f == OpenFile(file)
             IN  IF Raised(f) THEN [code |-> 500, read |-> None]
                 ELSE [code |-> 200, read |-> f.val]

CodeviewInputs ==
    [absolute : BOOLEAN, segments : SeqsUpTo(CodeviewSegments, MaxSegments)]

CodeviewInit == OrchInit /\ n_input \in CodeviewInputs /\ n_result = <<>>

CodeviewRequest ==
    /\ n_result = <<>>
    /\ n_result' = <<analysis_codeview(n_input)>>
    /\ UNCHANGED <<orchVars, n_input>>

CodeviewNext == CodeviewRequest

SpecCodeview == CodeviewInit /\ [][CodeviewNext]_vars

\* the resolved path is the extract directory or lies inside it
InsideExtract(real) ==
    /\ Len(real) >= Len(SourcePath)
    /\ SubSeq(real, 1, Len(SourcePath)) = SourcePath

\* C28: a file is read only if its resolved path lies inside the extract
\* directory, and a resolved path outside of it is answered with 403.
C28_ReadsOnlyInside ==
    n_result # <<>> =>
        LET real == RealPath(PathJoin(SourcePath, n_input))
        IN  /\ n_result[1].read # None => InsideExtract(n_result[1].read)
            /\ ~InsideExtract(real) =>
                   n_result[1].code = 403 /\ n_result[1].read = None

(***************************************************************************)
(* Claims about task_id and error_message, checked under Spec.             *)
(***************************************************************************)
\* the project's running analysis j is aborted in this step
Aborts(j) ==
    /\ j = project_analysis
    /\ status = STATUS_ANALYZING
    /\ status' = STATUS_ABORTED

TerminalStatus == {STATUS_FINISHED, STATUS_ERROR, STATUS_ABORTED}

\* C29: a step that writes a terminal status is the final commit of a job
\* or an abort, and leaves the task_id of the analysis it is written for
\* empty; the task_id of an analysis is non-empty only when its job has
\* taken its first commit and not its final one, and has not been aborted
\* since.
C29_HandleWindow ==
    /\ [](\A j \in JobIds :
             HandleSet(analysis[j].task_id) =>
                 /\ analysis[j].task_id = TaskId(j)
                 /\ job[j].pc \notin {"queued", "done", "killed"}
                 /\ TaskId(j) \notin revoked)
    /\ [][/\ \A j \in JobIds :
                Commits(j) \/ Aborts(j) =>
                    /\ status' \in TerminalStatus
                    /\ ~HandleSet(analysis'[j].task_id)
          /\ status' # status /\ status' \in TerminalStatus =>
                \E j \in JobIds : Commits(j) \/ Aborts(j)]_vars

\* the project's analysis has been aborted while its job runs: its task_id
\* is empty and the revocation of its task is under way
C29_Witness ==
    /\ status = STATUS_ABORTED
    /\ project_analysis # 0
    /\ Running(project_analysis)
    /\ analysis[project_analysis].started_on = Now
    /\ analysis[project_analysis].task_id = EmptyStr
    /\ TaskId(project_analysis) \in revoked

\* C30: a step that changes error_message is the final commit of a job
\* whose try block raised, and stores the repr of the exception caught;
\* launches, final commits of the success path and aborts leave it as it
\* is, also when it holds the message of an earlier run.
C30_MessageOnlyOnError ==
    [][/\ error_message' # error_message =>
              \E j \in JobIds :
                  /\ Commits(j)
                  /\ job[j].caught # None
                  /\ status' = STATUS_ERROR
                  /\ error_message' = Repr(job[j].caught)
       /\ \A j \in JobIds :
              Commits(j) /\ job[j].caught = None =>
                  status' = STATUS_FINISHED /\ error_message' = error_message
       /\ status' = STATUS_ABORTED \/ project_analysis' # project_analysis =>
              error_message' = error_message]_vars

\* the first analysis ended in ERROR and the relaunched one with findings:
\* the project is FINISHED and holds the first run's message
C30_Witness ==
    /\ status = STATUS_FINISHED
    /\ error_message \notin {None, EmptyStr}
    /\ project_analysis = 2
    /\ job[1].pc = "done"
    /\ job[2].pc = "done"
    /\ analysis[1].vulnerabilities = <<>>
    /\ analysis[2].vulnerabilities # <<>>
    /\ analysis[2].finished_on = Now

(***************************************************************************)
(* SpecIgnore: generate_semgrep_options (util.py:420-454) called, as on    *)
(* util.py:77, for two analyses that scans_launch (routes.py:189-193)      *)
(* created from forms differing in ignore_paths only.  ignore_paths and    *)
(* ignore_filenames are texts, sequences of names and commas; n_input is   *)
(* [analyses, files], n_result the options returned so far.                *)
(***************************************************************************)
RECURSIVE SplitComma(_)
\* str.split(","): the comma-separated pieces, empty ones kept
SplitComma(s) ==
    IF \A i \in 1..Len(s) : s[i] # ","
    THEN <<s>>
    ELSE LET k == CHOOSE i \in 1..Len(s) :
                      s[i] = "," /\ \A m \in 1..(i-1) : s[m] # ","
         IN  <<SubSeq(s, 1, k-1)>> \o SplitComma(SubSeq(s, k+1, Len(s)))

RECURSIVE Text(_)
\* a piece of a text as a string, the empty piece as ""
Text(piece) ==
    IF Len(piece) = 0 THEN EmptyStr ELSE piece[1] \o Text(Tail(piece))

\* variant: the pieces of ignore_paths join the ignore set
SemgrepOptionsWithPaths(a, files) ==
    LET pieces == SplitComma(a.ignore_filenames) \o SplitComma(a.ignore_paths)
    IN  generate_semgrep_options(a.rule_packs, files,
            [i \in 1..Len(pieces) |-> Text(pieces[i])])

\* util.py:77  generate_semgrep_options(analysis): what it reads of the
\* Analysis a
SemgrepOptionsOf(a, files) ==
    LET pieces == SplitComma(a.ignore_filenames)
    IN  generate_semgrep_options(a.rule_packs, files,
            [i \in 1..Len(pieces) |-> Text(pieces[i])])

\* two analyses of routes.py:189-193 with the same rule packs and
\* ignore_filenames, and different ignore_paths
IgnoreInit ==
    /\ OrchInit
    /\ n_result = <<>>
    /\ \E ps \in SUBSET OptionPackIds, fs \in SUBSET SourceFiles,
          names \in {<<>>, <<"x.py", ",", ",", "x.py", ",", "t">>, <<",", "y">>},
          p1, p2 \in {<<>>, <<"tests">>, <<"tests", ",", "x.py">>} :
          /\ p1 # p2
          /\ n_input =
                 [analyses |->
                      <<[rule_packs |-> SetToSeq(ps), ignore_paths |-> p1,
                         ignore_filenames |-> names],
                        [rule_packs |-> SetToSeq(ps), ignore_paths |-> p2,
                         ignore_filenames |-> names]>>,
                  files |-> fs]

\* util.py:77 for the next of the two analyses
IgnoreRun ==
    /\ Len(n_result) < 2
    /\ n_result' = Append(n_result,
                       SemgrepOptionsOf(n_input.analyses[Len(n_result) + 1],
                                        n_input.files))
    /\ UNCHANGED <<orchVars, n_input>>

IgnoreNext == IgnoreRun

SpecIgnore == IgnoreInit /\ [][IgnoreNext]_vars

============================================================================
